---------------------------- MODULE Spec2Model ----------------------------
(***************************************************************************)
(* A model of scripts/generate-icons.py: the PNG encoder (make_png), the   *)
(* coverage primitives (aa_circle, aa_rounded_rect), the glyph test        *)
(* (is_in_b), the rasterizer (draw_icon) and the driver (main).            *)
(*                                                                         *)
(* NUMBERS.  The script computes in binary64.  The model computes with the *)
(* exact values: every length is an integer count of hundredths (0.18 is   *)
(* 18, 0.7 is 70, 1.4 is 140, pixel x is 100*x), a normalized glyph        *)
(* coordinate is a fraction n/d, the glyph table is in thousandths, and a  *)
(* distance is kept as its square, so no square root is ever rounded.      *)
(* Squares exceed TLC's integers, so they are kept as "wide"               *)
(* numbers (eight base-10000 limbs, least significant first).              *)
(*                                                                         *)
(* A coverage inside the falloff band is the quotient                      *)
(*      (r + 0.7 - dist) / 1.4,                                            *)
(* the one inexact result the primitives return.  It is kept as the record *)
(* [a, n, lo] standing for (a - sqrt(n))/140 in hundredths; lo says that   *)
(* the double the machine computed falls short of the exact quotient (the  *)
(* two sums and the division each round).  Which way a given quotient      *)
(* rounds is fixed by the hardware but not visible at this level, so lo is *)
(* an input of the primitive.  The difference of two equal doubles is an   *)
(* exact 0 and a double divided by itself is an exact 1, so the quotients  *)
(* 0/1.4 and 1.4/1.4 never fall short.  Every other operation (the         *)
(* comparisons of is_in_b, the products and the truncations of draw_icon)  *)
(* is taken on the exact values.                                           *)
(***************************************************************************)
EXTENDS Integers, Sequences, FiniteSets, TLC

VARIABLES
    call,        \* a function under test and its arguments
    ret,         \* <<its result>>, NoRet before it has returned
    draw_size,   \* draw_icon: the argument size
    draw_y,      \* draw_icon: the row of the loop "for y in range(size)"
    draw_x,      \* draw_icon: the column of the loop "for x in range(size)"
    draw_pixels, \* draw_icon: the list pixels
    draw_pc,     \* draw_icon: "idle", "loop" or "returned"
    draw_lo,     \* draw_icon: <<lor, loc>>, the shortfalls of this run's quotients
    main_pc,     \* main: "idle", "makedirs", "generate", "open", "write", "done", "failed"
    main_k,      \* main: the number of the output being produced, 1..5
    main_data,   \* main: the bytes generated for output main_k, "" before
    main_fs,     \* the output directory: file name -> content
    main_log     \* the files main has written, in the order of the writes

vars == <<call, ret, draw_size, draw_y, draw_x, draw_pixels, draw_pc, draw_lo,
          main_pc, main_k, main_data, main_fs, main_log>>

NoRet == <<>>

------------------------------------------------------------------------------
(* Wide non-negative integers: tuples of eight limbs base 10000.             *)

Abs(v) == IF v < 0 THEN -v ELSE v

Carry(c) ==
    LET s1 == c[1]
        s2 == c[2] + s1 \div 10000
        s3 == c[3] + s2 \div 10000
        s4 == c[4] + s3 \div 10000
        s5 == c[5] + s4 \div 10000
        s6 == c[6] + s5 \div 10000
        s7 == c[7] + s6 \div 10000
        s8 == c[8] + s7 \div 10000
    IN  <<s1 % 10000, s2 % 10000, s3 % 10000, s4 % 10000,
          s5 % 10000, s6 % 10000, s7 % 10000, s8 % 10000>>

Wide(v) == <<v % 10000, (v \div 10000) % 10000, v \div 100000000, 0, 0, 0, 0, 0>>

WAdd(u, v) == Carry([i \in 1..8 |-> u[i] + v[i]])

RECURSIVE Column(_, _, _, _)
Column(u, v, c, i) ==
    IF i > c THEN 0 ELSE u[i] * v[c + 1 - i] + Column(u, v, c, i + 1)

WMul(u, v) == Carry([c \in 1..8 |-> Column(u, v, c, 1)])

WSq(v) == WMul(Wide(Abs(v)), Wide(Abs(v)))

RECURSIVE WCmpFrom(_, _, _)
WCmpFrom(u, v, i) ==
    IF i = 0 THEN 0
    ELSE IF u[i] < v[i] THEN -1
    ELSE IF u[i] > v[i] THEN 1
    ELSE WCmpFrom(u, v, i - 1)

WLt(u, v) == WCmpFrom(u, v, 8) < 0
WLeq(u, v) == WCmpFrom(u, v, 8) <= 0

------------------------------------------------------------------------------
(* Coverage values.                                                          *)

One == [a |-> 140, n |-> Wide(0), lo |-> FALSE]
Zero == [a |-> 0, n |-> Wide(0), lo |-> FALSE]

\* c <= 0
CovLe0(c) == c.a <= 0 \/ WLeq(WSq(c.a), c.n)

\* c >= 1.0
CovGe1(c) ==
    /\ c.a >= 140
    /\ IF c.lo THEN WLt(c.n, WSq(c.a - 140)) ELSE WLeq(c.n, WSq(c.a - 140))

\* c = 1.0 and c = 0.0, for the statements about the primitives
CovIs1(c) == CovGe1(c) /\ c.a >= 140 /\ WLeq(WSq(c.a - 140), c.n)
CovIs0(c) == CovLe0(c) /\ c.a >= 0 /\ WLeq(c.n, WSq(c.a))

\* max(0, min(1, c))
Max0Min1(c) == IF CovGe1(c) THEN One ELSE IF CovLe0(c) THEN Zero ELSE c

\* (x - cx) ** 2 + (y - cy) ** 2
Dist2(x, y, cx, cy) == WAdd(WSq(x - cx), WSq(y - cy))

\* sqrt(d2) < t   and   sqrt(d2) > t
DistLt(d2, t) == t > 0 /\ WLt(d2, WSq(t))
DistGt(d2, t) == t < 0 \/ WLt(WSq(t), d2)

\* (a - dist) / 1.4 as the machine returns it: an exact 0 when a = dist, an
\* exact 1 when dist = 0 and a = 1.4 (a double divided by itself)
Quotient(a, d2, lo) ==
    [a |-> a, n |-> d2, lo |-> lo /\ d2 # WSq(a) /\ ~(d2 = Wide(0) /\ a = 140)]

\* c0/140 + m * c >= k, that is c0 + m*(a - sqrt n) >= 140*k (> when the
\* quotient fell short)
ValueGe(c0, m, c, k) ==
    LET t == c0 + m * c.a - 140 * k
        lhs == WMul(Wide(m * m), c.n)
    IN  /\ t >= 0
        /\ IF c.lo THEN t > 0 /\ WLt(lhs, WSq(t)) ELSE WLeq(lhs, WSq(t))

RECURSIVE TruncSearch(_, _, _, _, _)
TruncSearch(c0, m, c, low, high) ==
    IF low >= high THEN low
    ELSE LET mid == (low + high + 1) \div 2
         IN  IF ValueGe(c0, m, c, mid)
             THEN TruncSearch(c0, m, c, mid, high)
             ELSE TruncSearch(c0, m, c, low, mid - 1)

\* round(c0/140 + m * c), halves up
Trunc_nearest(c0, m, c) == TruncSearch(c0 + 70, m, c, 0, 255)

\* int(c0/140 + m * c) for a coverage c in [0, 1] and a value in [0, 255]: the
\* largest k with c0/140 + m * c >= k
Trunc(c0, m, c) == TruncSearch(c0, m, c, 0, 255)

------------------------------------------------------------------------------
(* The PNG encoder.  A byte string is a sequence of integers 0..255.  A      *)
(* CRC-32 exceeds TLC's integers, so it is kept as its two 16-bit            *)
(* halves <<high, low>> until it is packed.                                  *)
(* zlib.crc32 and zlib.compress are library routines.  crc32 is the CRC-32   *)
(* of zlib (reflected polynomial EDB88320, initial value and final           *)
(* complement FFFFFFFF).  compress is taken by its contract, a zlib stream   *)
(* that inflates to its input: the model writes the stream with one stored   *)
(* block (header 78 01, the block header, LEN, NLEN, the bytes, Adler-32),   *)
(* not the Huffman-coded stream level 9 writes.                              *)

\* struct.pack('>I', n)
pack_I(n) == <<n \div 16777216, (n \div 65536) % 256, (n \div 256) % 256, n % 256>>

\* a ^ b on n bits
RECURSIVE Xor(_, _, _)
Xor(a, b, n) ==
    IF n = 0 THEN 0 ELSE ((a + b) % 2) + 2 * Xor(a \div 2, b \div 2, n - 1)

\* one bit of the register c = <<high half, low half>>: shift right, and
\* subtract the polynomial EDB8 8320 if the bit shifted out is 1
CrcShift(c) ==
    LET hi == c[1] \div 2
        lo == (c[2] \div 2) + 32768 * (c[1] % 2)
    IN  IF c[2] % 2 = 1 THEN <<Xor(hi, 60856, 16), Xor(lo, 33568, 16)>>
        ELSE <<hi, lo>>

\* the k shifts that follow the exclusive-or of a byte into the low 8 bits
RECURSIVE CrcShifts(_, _)
CrcShifts(c, k) == IF k = 0 THEN c ELSE CrcShifts(CrcShift(c), k - 1)

\* the register c after the bytes data[i..j]; the halves of the string are
\* taken in turn (the comparison has TLC compute the register after
\* the first half before it starts on the second)
RECURSIVE CrcBytes(_, _, _, _)
CrcBytes(c, data, i, j) ==
    IF i > j THEN c
    ELSE IF i = j THEN CrcShifts(<<c[1], Xor(c[2], data[i], 16)>>, 8)
    ELSE LET mid == (i + j) \div 2
             left == CrcBytes(c, data, i, mid)
         IN  IF left = c THEN CrcBytes(c, data, mid + 1, j)
             ELSE CrcBytes(left, data, mid + 1, j)

\* zlib.crc32(data) & 0xFFFFFFFF
crc32(data) ==
    LET c == CrcBytes(<<65535, 65535>>, data, 1, Len(data))
    IN  <<65535 - c[1], 65535 - c[2]>>

\* struct.pack('>I', ...) of a value given by its halves
pack_I_halves(c) == <<c[1] \div 256, c[1] % 256, c[2] \div 256, c[2] % 256>>

\* chunk with the CRC taken over the data alone
chunk_crc_of_data(chunk_type, data) ==
    pack_I(Len(data)) \o chunk_type \o data \o pack_I_halves(crc32(data))

\* def chunk(chunk_type, data)
chunk(chunk_type, data) ==
    LET c == chunk_type \o data
        crc == pack_I_halves(crc32(c))
    IN  pack_I(Len(data)) \o c \o crc

\* the sums of Adler-32 over data[i..j] of a string of n bytes: <<the sum of
\* the bytes, the sum of the bytes each weighted by the number of running
\* sums it enters, n - k + 1 for data[k]>>
RECURSIVE AdlerSums(_, _, _, _)
AdlerSums(data, n, i, j) ==
    IF i > j THEN <<0, 0>>
    ELSE IF i = j THEN <<data[i], (n - i + 1) * data[i]>>
    ELSE LET mid == (i + j) \div 2
             left == AdlerSums(data, n, i, mid)
             right == AdlerSums(data, n, mid + 1, j)
         IN  <<left[1] + right[1], left[2] + right[2]>>

\* <<a, b>> of Adler-32: a is 1 plus the bytes, b the sum of the running
\* values of a, both modulo 65521
Adler(data) ==
    LET n == Len(data)
        sums == AdlerSums(data, n, 1, n)
    IN  <<(1 + sums[1]) % 65521, (n + sums[2]) % 65521>>

\* zlib.compress(raw, 9)
compress(raw) ==
    LET n == Len(raw)
        ad == Adler(raw)
    IN  <<120, 1, 1, n % 256, n \div 256, 255 - (n % 256), 255 - (n \div 256)>>
        \o raw
        \o <<ad[2] \div 256, ad[2] % 256, ad[1] \div 256, ad[1] % 256>>

\* a pixel packed blue first
pack_BGRA(px) == <<px[3], px[2], px[1], px[4]>>

\* r, g, b, a = px; struct.pack('BBBB', r, g, b, a)
pack_BBBB(px) == <<px[1], px[2], px[3], px[4]>>

\* the loop "for x in range(width)" of make_png for row y, from column x on
RECURSIVE RowFrom(_, _, _, _)
RowFrom(width, pixels, y, x) ==
    IF x >= width THEN <<>>
    ELSE pack_BBBB(pixels[y * width + x + 1]) \o RowFrom(width, pixels, y, x + 1)

\* the loop "for y in range(height)" of make_png, from row y on
RECURSIVE RawFrom(_, _, _, _)
RawFrom(width, height, pixels, y) ==
    IF y >= height THEN <<>>
    ELSE <<0>> \o RowFrom(width, pixels, y, 0) \o RawFrom(width, height, pixels, y + 1)

sig == <<137, 80, 78, 71, 13, 10, 26, 10>>
IHDR == <<73, 72, 68, 82>>
IDAT == <<73, 68, 65, 84>>
IEND == <<73, 69, 78, 68>>

\* def make_png(width, height, pixels)
make_png(width, height, pixels) ==
    LET ihdr == pack_I(width) \o pack_I(height) \o <<8, 6, 0, 0, 0>>
        raw == RawFrom(width, height, pixels, 0)
        compressed == compress(raw)
    IN  sig \o chunk(IHDR, ihdr) \o chunk(IDAT, compressed) \o chunk(IEND, <<>>)

------------------------------------------------------------------------------
(* Shape and coverage primitives (lengths in hundredths).                    *)

\* def aa_circle(x, y, cx, cy, r)
aa_circle(x, y, cx, cy, r, lo) ==
    LET dist2 == Dist2(x, y, cx, cy)
    IN  IF DistLt(dist2, r - 70) THEN One
        ELSE IF DistGt(dist2, r + 70) THEN Zero
        ELSE Max0Min1(Quotient(r + 70, dist2, lo))

\* the list corners of aa_rounded_rect
Corners(size, corner_r) ==
    << <<corner_r, corner_r>>,
       <<size - corner_r, corner_r>>,
       <<corner_r, size - corner_r>>,
       <<size - corner_r, size - corner_r>> >>

\* in_cx and in_cy with the sides of the centre exchanged
InCorner_far(x, y, size, corner_r, cx, cy) ==
    LET center == size \div 2
        in_cx == (x < corner_r /\ cx > center) \/ (x >= size - corner_r /\ cx < center)
        in_cy == (y < corner_r /\ cy > center) \/ (y >= size - corner_r /\ cy < center)
    IN  in_cx /\ in_cy

\* in_cx and in_cy of aa_rounded_rect, for the corner centred at (cx, cy)
InCorner(x, y, size, corner_r, cx, cy) ==
    LET center == size \div 2
        in_cx == (x < corner_r /\ cx < center) \/ (x >= size - corner_r /\ cx > center)
        in_cy == (y < corner_r /\ cy < center) \/ (y >= size - corner_r /\ cy > center)
    IN  in_cx /\ in_cy

\* the loop "for cx, cy in corners" of aa_rounded_rect, from the i-th corner on
RECURSIVE RectLoop(_, _, _, _, _, _)
RectLoop(x, y, size, corner_r, lo, i) ==
    IF i > 4 THEN One
    ELSE LET cx == Corners(size, corner_r)[i][1]
             cy == Corners(size, corner_r)[i][2]
             dist2 == Dist2(x, y, cx, cy)
         IN  IF InCorner(x, y, size, corner_r, cx, cy)
             THEN IF DistGt(dist2, corner_r + 70) THEN Zero
                  ELSE IF DistGt(dist2, corner_r - 70)
                       THEN Max0Min1(Quotient(corner_r + 70, dist2, lo))
                       ELSE RectLoop(x, y, size, corner_r, lo, i + 1)
             ELSE RectLoop(x, y, size, corner_r, lo, i + 1)

\* def aa_rounded_rect(x, y, size, corner_r)
aa_rounded_rect(x, y, size, corner_r, lo) == RectLoop(x, y, size, corner_r, lo, 1)

------------------------------------------------------------------------------
(* The glyph test.  nx and ny are fractions [n, d] with d > 0; the table is  *)
(* in thousandths.                                                           *)

Frac(n, d) == [n |-> n, d |-> d]

\* lo <= v <= hi, lo and hi in thousandths
Between(lo, v, hi) == lo * v.d <= 1000 * v.n /\ 1000 * v.n <= hi * v.d

\* ((nx - cx) / rx) ** 2 + ((ny - cy) / ry) ** 2 <= 1.0
InEllipse(nx, ny, cx, cy, rx, ry) ==
    LET u == WMul(Wide(Abs(1000 * nx.n - cx * nx.d)), Wide(ry * ny.d))
        v == WMul(Wide(Abs(1000 * ny.n - cy * ny.d)), Wide(rx * nx.d))
        w == WMul(Wide(rx * nx.d), Wide(ry * ny.d))
    IN  WLeq(WAdd(WMul(u, u), WMul(v, v)), WMul(w, w))

\* is_in_b with only the upper hole cut out
is_in_b_one_hole(nx, ny) ==
    LET stem == Between(320, nx, 440) /\ Between(200, ny, 800)
        top_bar == Between(440, nx, 580) /\ Between(200, ny, 300)
        mid_bar == Between(440, nx, 600) /\ Between(460, ny, 540)
        bot_bar == Between(440, nx, 580) /\ Between(700, ny, 800)
        top_bump == InEllipse(nx, ny, 550, 375, 140, 135) /\ 1000 * nx.n >= 440 * nx.d
        bot_bump == InEllipse(nx, ny, 570, 625, 150, 135) /\ 1000 * nx.n >= 440 * nx.d
        filled == stem \/ top_bar \/ mid_bar \/ bot_bar \/ top_bump \/ bot_bump
    IN  filled /\ ~InEllipse(nx, ny, 490, 375, 65, 65)

\* def is_in_b(nx, ny)
is_in_b(nx, ny) ==
    LET stem == Between(320, nx, 440) /\ Between(200, ny, 800)
        top_bar == Between(440, nx, 580) /\ Between(200, ny, 300)
        mid_bar == Between(440, nx, 600) /\ Between(460, ny, 540)
        bot_bar == Between(440, nx, 580) /\ Between(700, ny, 800)
        top_bump == InEllipse(nx, ny, 550, 375, 140, 135) /\ 1000 * nx.n >= 440 * nx.d
        bot_bump == InEllipse(nx, ny, 570, 625, 150, 135) /\ 1000 * nx.n >= 440 * nx.d
        filled == stem \/ top_bar \/ mid_bar \/ bot_bar \/ top_bump \/ bot_bump
    IN  IF ~filled THEN FALSE
        ELSE IF InEllipse(nx, ny, 490, 375, 65, 65) THEN FALSE
        ELSE IF InEllipse(nx, ny, 510, 625, 70, 65) THEN FALSE
        ELSE TRUE

------------------------------------------------------------------------------
(* The rasterizer.                                                           *)

BG_R == 16
BG_G == 185
BG_B == 129

\* int(255 * ca), the background term dropped
Blend_white_only(bg, ca) == Trunc(0, 255, ca)

\* int(bg * (1 - ca) + 255 * ca)
Blend(bg, ca) == Trunc(140 * bg, 255 - bg, ca)

\* the body with the test "ca >= 1.0" left out: the coin is blended wherever
\* ca > 0
Pixel_no_glyph(size, x, y, lor, loc) ==
    LET center == (100 * size) \div 2
        ra == aa_rounded_rect(100 * x, 100 * y, 100 * size, size * 18, lor)
        alpha == Trunc(0, 255, ra)
        ca == aa_circle(100 * x, 100 * y, center, center, size * 35, loc)
    IN  IF CovLe0(ra) THEN <<0, 0, 0, 0>>
        ELSE IF ~CovLe0(ca)
             THEN <<Blend(BG_R, ca), Blend(BG_G, ca), Blend(BG_B, ca), alpha>>
        ELSE <<BG_R, BG_G, BG_B, alpha>>

\* the body of the loops of draw_icon for pixel (x, y); lor and loc are the
\* shortfalls of the two coverage quotients
Pixel(size, x, y, lor, loc) ==
    LET center == (100 * size) \div 2
        corner_r == size * 18
        coin_r == size * 35
        ra == aa_rounded_rect(100 * x, 100 * y, 100 * size, corner_r, lor)
        alpha == Trunc(0, 255, ra)
        ca == aa_circle(100 * x, 100 * y, center, center, coin_r, loc)
        nx == Frac(coin_r + (100 * x - center), coin_r * 2)
        ny == Frac(coin_r + (100 * y - center), coin_r * 2)
    IN  IF CovLe0(ra) THEN <<0, 0, 0, 0>>
        ELSE IF CovGe1(ca)
             THEN IF is_in_b(nx, ny)
                  THEN <<BG_R, BG_G, BG_B, alpha>>
                  ELSE <<255, 255, 255, alpha>>
        ELSE IF ~CovLe0(ca)
             THEN <<Blend(BG_R, ca), Blend(BG_G, ca), Blend(BG_B, ca), alpha>>
        ELSE <<BG_R, BG_G, BG_B, alpha>>

------------------------------------------------------------------------------
(* Bounds.                                                                   *)

\* draw_icon is run, and every pixel of it computed, for the sizes 1..MaxSize
MaxSize == 12

\* the sizes main generates: the table sizes and the favicon
GeneratedSizes == {512, 192, 180, 32}

NoCall == [fn |-> "none"]
CallIdle == call = NoCall /\ ret = NoRet
DrawIdle ==
    /\ draw_size = 0 /\ draw_y = 0 /\ draw_x = 0
    /\ draw_pixels = <<>> /\ draw_pc = "idle"
    /\ draw_lo = <<FALSE, FALSE>>
drawVars == <<draw_size, draw_y, draw_x, draw_pixels, draw_pc, draw_lo>>
MainIdle ==
    /\ main_pc = "idle" /\ main_k = 0 /\ main_data = ""
    /\ main_fs = <<>> /\ main_log = <<>>
mainVars == <<main_pc, main_k, main_data, main_fs, main_log>>

------------------------------------------------------------------------------
(* The per-pixel body of draw_icon as a function: every pixel of the sizes   *)
(* 1..MaxSize, and the diagonal (corner to centre to corner) of the sizes    *)
(* main generates.                                                           *)

PixelInputs ==
    {[fn |-> "pixel", size |-> s, x |-> px, y |-> py, lor |-> lr, loc |-> lc] :
        s \in 1..MaxSize, px \in 0..(MaxSize - 1), py \in 0..(MaxSize - 1),
        lr \in BOOLEAN, lc \in BOOLEAN}
    \cup
    {[fn |-> "pixel", size |-> s, x |-> d, y |-> d, lor |-> lr, loc |-> lc] :
        s \in GeneratedSizes, d \in 0..511, lr \in BOOLEAN, lc \in BOOLEAN}

InitPixel ==
    /\ call \in {c \in PixelInputs : c.x < c.size /\ c.y < c.size}
    /\ ret = NoRet
    /\ DrawIdle /\ MainIdle

ApplyPixel ==
    /\ call.fn = "pixel" /\ ret = NoRet
    /\ ret' = <<Pixel(call.size, call.x, call.y, call.lor, call.loc)>>
    /\ UNCHANGED <<call, drawVars, mainVars>>

NextPixel == ApplyPixel

SpecPixel == InitPixel /\ [][NextPixel]_vars

------------------------------------------------------------------------------
(* Statements about the per-pixel body (SpecPixel).                          *)

PxDone == call.fn = "pixel" /\ ret # NoRet
PxOut == ret[1]
\* the coverages of the pixel under test: ra with corner_radius = size*0.18,
\* ca about the canvas centre with coin_radius = size*0.35
PxRa ==
    aa_rounded_rect(100 * call.x, 100 * call.y, 100 * call.size, 18 * call.size, call.lor)
PxCa ==
    aa_circle(100 * call.x, 100 * call.y, 50 * call.size, 50 * call.size,
              35 * call.size, call.loc)
\* k = floor(c0/140 + m * c)
IsFloor(k, c0, m, c) == ValueGe(c0, m, c, k) /\ ~ValueGe(c0, m, c, k + 1)
IsWhite(p) == p[1] = 255 /\ p[2] = 255 /\ p[3] = 255
IsBrand(p) == p[1] = 16 /\ p[2] = 185 /\ p[3] = 129

\* C3 as stated: for every size > 0 the pixel at (0,0) has alpha 0.
C3_CornerAlphaZero ==
    (PxDone /\ call.x = 0 /\ call.y = 0) => PxOut[4] = 0

\* C3 amended: for every size >= 10 (the generated sizes among them) the pixel
\* at (0,0) is (0,0,0,0); for the sizes 1..9 its alpha is not 0.
C3_CornerAlphaZeroFrom10 ==
    (PxDone /\ call.x = 0 /\ call.y = 0) =>
        IF call.size >= 10 THEN PxOut = <<0, 0, 0, 0>> ELSE PxOut[4] > 0

C3_Witness ==
    /\ PxDone /\ call.x = 0 /\ call.y = 0 /\ call.size = 512
    /\ PxOut = <<0, 0, 0, 0>>

\* C4 as stated: for every pixel with ra > 0 the alpha is ra*255 rounded to the
\* nearest integer, halves up.
C4_AlphaRounded ==
    (PxDone /\ ~CovLe0(PxRa)) => IsFloor(PxOut[4], 70, 255, PxRa)

\* C4 amended: for every pixel with ra > 0 the alpha is ra*255 truncated (the
\* floor), so ra = 1.0 gives 255 and a fractional part >= 0.5 is dropped.
C4_AlphaTruncated ==
    (PxDone /\ ~CovLe0(PxRa)) =>
        /\ IsFloor(PxOut[4], 0, 255, PxRa)
        /\ CovGe1(PxRa) => PxOut[4] = 255

\* a pixel whose ra*255 has a fractional part >= 0.5 (113.9 at size 1)
C4_Witness ==
    /\ PxDone /\ call.size = 1 /\ ~CovLe0(PxRa)
    /\ PxOut[4] = 113 /\ IsFloor(114, 70, 255, PxRa)

\* C7: the centre pixel of every generated size has alpha 255 and is white or
\* the brand colour; every pixel with ra > 0 has each channel between the
\* brand colour's and 255, and is exactly white or brand when ca >= 1.0 or
\* ca <= 0.
C7_Colours ==
    PxDone =>
        /\ (call.size \in {32, 180, 192, 512} /\ call.x = call.size \div 2
                /\ call.y = call.size \div 2)
              => (PxOut[4] = 255 /\ (IsWhite(PxOut) \/ IsBrand(PxOut)))
        /\ ~CovLe0(PxRa) =>
              /\ PxOut[1] \in 16..255 /\ PxOut[2] \in 185..255 /\ PxOut[3] \in 129..255
              /\ (CovGe1(PxCa) \/ CovLe0(PxCa)) => (IsWhite(PxOut) \/ IsBrand(PxOut))

C7_Witness ==
    /\ PxDone /\ call.size = 512 /\ call.x = 256 /\ call.y = 256
    /\ PxOut = <<16, 185, 129, 255>>

\* C9: the pixel is (0,0,0,0) if ra <= 0; otherwise, if ca >= 1.0, brand where
\* is_in_b(0.5 + (x-center)/(2*coin_radius), likewise for y) holds and white
\* elsewhere; if 0 < ca < 1.0, floor(brand*(1-ca) + 255*ca) per channel; if
\* ca <= 0, brand.
C9_Cases ==
    PxDone =>
        LET nx == Frac(35 * call.size + 100 * call.x - 50 * call.size, 70 * call.size)
            ny == Frac(35 * call.size + 100 * call.y - 50 * call.size, 70 * call.size)
        IN  IF CovLe0(PxRa) THEN PxOut = <<0, 0, 0, 0>>
            ELSE IF CovGe1(PxCa)
                 THEN IF is_in_b(nx, ny) THEN IsBrand(PxOut) ELSE IsWhite(PxOut)
            ELSE IF ~CovLe0(PxCa)
                 THEN /\ IsFloor(PxOut[1], 140 * 16, 255 - 16, PxCa)
                      /\ IsFloor(PxOut[2], 140 * 185, 255 - 185, PxCa)
                      /\ IsFloor(PxOut[3], 140 * 129, 255 - 129, PxCa)
            ELSE IsBrand(PxOut)

\* a pixel on the coin's edge, blended
C9_Witness ==
    /\ PxDone /\ call.size = 12 /\ call.x = 4 /\ call.y = 2
    /\ ~CovGe1(PxCa) /\ ~CovLe0(PxCa)
    /\ PxOut = <<89, 206, 167, 255>>

------------------------------------------------------------------------------
(* draw_icon: one action per iteration of the inner loop.  The shortfalls of  *)
(* the quotients are drawn once for a run: drawn per pixel they would double *)
(* the canvases at every pixel they matter to, and every pixel meets both    *)
(* outcomes in some run as it is.                                            *)

\* an iteration whose transparent branch goes on without appending
Emitted_skip_transparent(size, x, y, lor, loc) ==
    IF Pixel(size, x, y, lor, loc) = <<0, 0, 0, 0>> THEN <<>>
    ELSE <<Pixel(size, x, y, lor, loc)>>

\* what one iteration appends to pixels: every branch of the body appends
\* exactly one tuple
Emitted(size, x, y, lor, loc) == <<Pixel(size, x, y, lor, loc)>>

InitDraw ==
    /\ CallIdle /\ MainIdle
    /\ draw_size \in 1..MaxSize
    /\ draw_y = 0 /\ draw_x = 0
    /\ draw_pixels = <<>>
    /\ draw_pc = "loop"
    /\ draw_lo \in BOOLEAN \X BOOLEAN

\* for y in range(size): for x in range(size): <body>
DrawPixel ==
    /\ draw_pc = "loop" /\ draw_y < draw_size
    /\ draw_pixels' =
          draw_pixels \o Emitted(draw_size, draw_x, draw_y, draw_lo[1], draw_lo[2])
    /\ IF draw_x + 1 < draw_size
       THEN draw_x' = draw_x + 1 /\ draw_y' = draw_y
       ELSE draw_x' = 0 /\ draw_y' = draw_y + 1
    /\ UNCHANGED <<call, ret, draw_size, draw_pc, draw_lo, mainVars>>

\* return pixels
DrawReturn ==
    /\ draw_pc = "loop" /\ draw_y = draw_size
    /\ draw_pc' = "returned"
    /\ UNCHANGED <<call, ret, draw_size, draw_y, draw_x, draw_pixels, draw_lo, mainVars>>

NextDraw == DrawPixel \/ DrawReturn

SpecDraw == InitDraw /\ [][NextDraw]_vars

\* p is a pixel the body can produce for (x, y)
IsPixelAt(p, size, x, y) == \E lr \in BOOLEAN, lc \in BOOLEAN : p = Pixel(size, x, y, lr, lc)

\* C8: draw_icon(size) returns exactly size*size pixels, one per (x, y) on
\* every branch of the body, the pixel of (x, y) at index y*size + x, each a
\* 4-tuple of integers in 0..255.
C8_Canvas ==
    draw_pc \in {"loop", "returned"} =>
        LET n == Len(draw_pixels)
        IN  /\ n = draw_y * draw_size + draw_x
            /\ \A i \in 1..n : draw_pixels[i] \in (0..255) \X (0..255) \X (0..255) \X (0..255)
            /\ n > 0 => IsPixelAt(draw_pixels[n], draw_size,
                                   (n - 1) % draw_size, (n - 1) \div draw_size)
            /\ draw_pc = "returned" =>
                  /\ n = draw_size * draw_size
                  /\ \A px \in 0..(draw_size - 1), py \in 0..(draw_size - 1) :
                        IsPixelAt(draw_pixels[py * draw_size + px + 1], draw_size, px, py)

\* a returned canvas whose first pixel took the transparent branch
C8_Witness ==
    /\ draw_pc = "returned" /\ draw_size = 12
    /\ Len(draw_pixels) = 144
    /\ draw_pixels[1] = <<0, 0, 0, 0>>
    /\ draw_pixels[6 * 12 + 6 + 1] = <<16, 185, 129, 255>>

------------------------------------------------------------------------------
(* The coverage primitives as functions, on the arguments draw_icon passes   *)
(* them: every pixel of a size, with that size's centre and radii.           *)

\* aa_circle is applied as draw_icon applies it (pixel (x, y), centre size/2,
\* radius size*0.35) for the sizes 1..MaxSize and for 22, the least size with
\* a pixel at the distance r - 0.7 from the centre other than the centre
CircleSizes == (1..MaxSize) \cup {22}

CircleInputs ==
    UNION {{[fn |-> "aa_circle", x |-> 100 * px, y |-> 100 * py,
             cx |-> 50 * s, cy |-> 50 * s, r |-> 35 * s, lo |-> l] :
                px \in 0..(s - 1), py \in 0..(s - 1), l \in BOOLEAN} :
           s \in CircleSizes}

RectInputs ==
    {c \in {[fn |-> "aa_rounded_rect", x |-> 100 * px, y |-> 100 * py,
             size |-> 100 * s, corner_r |-> 18 * s, lo |-> l] :
                s \in 1..MaxSize, px \in 0..(MaxSize - 1), py \in 0..(MaxSize - 1),
                l \in BOOLEAN} :
        c.x < c.size /\ c.y < c.size}

InitCov ==
    /\ call \in CircleInputs \cup RectInputs
    /\ ret = NoRet
    /\ DrawIdle /\ MainIdle

ApplyCircle ==
    /\ call.fn = "aa_circle" /\ ret = NoRet
    /\ ret' = <<aa_circle(call.x, call.y, call.cx, call.cy, call.r, call.lo)>>
    /\ UNCHANGED <<call, drawVars, mainVars>>

ApplyRect ==
    /\ call.fn = "aa_rounded_rect" /\ ret = NoRet
    /\ ret' = <<aa_rounded_rect(call.x, call.y, call.size, call.corner_r, call.lo)>>
    /\ UNCHANGED <<call, drawVars, mainVars>>

NextCov == ApplyCircle \/ ApplyRect

SpecCov == InitCov /\ [][NextCov]_vars

\* 0 <= c <= 1
CovIn01(c) ==
    /\ c.a >= 0 /\ WLeq(c.n, WSq(c.a))
    /\ c.a <= 140 \/ WLeq(WSq(c.a - 140), c.n)

\* c >= c2 for two results of one primitive with the same radius: each is One,
\* Zero, or a quotient with the same a
CovGeq(c, c2) ==
    IF CovIs1(c) \/ CovLe0(c2) THEN TRUE
    ELSE IF CovLe0(c) \/ CovIs1(c2) THEN FALSE
    ELSE WLt(c.n, c2.n) \/ (c.n = c2.n /\ (c.lo => c2.lo))

\* the statements of C5 for a result c at squared distance d2 from the centre
\* of a circle of radius r; strict says "distance < r - 0.7" for "<="
CovLaw(c, d2, r, strict) ==
    /\ CovIn01(c)
    /\ (IF strict THEN DistLt(d2, r - 70) ELSE ~DistGt(d2, r - 70)) => CovIs1(c)
    /\ ~DistLt(d2, r + 70) => CovIs0(c)

\* the corners in whose quadrant the pixel (x, y) lies
Quadrants(x, y, size, corner_r) ==
    {i \in 1..4 : InCorner(x, y, size, corner_r,
                           Corners(size, corner_r)[i][1], Corners(size, corner_r)[i][2])}

CornerDist2(x, y, size, corner_r, i) ==
    Dist2(x, y, Corners(size, corner_r)[i][1], Corners(size, corner_r)[i][2])

CovClaim(strict) ==
    /\ (call.fn = "aa_circle" /\ ret # NoRet) =>
          /\ CovLaw(ret[1], Dist2(call.x, call.y, call.cx, call.cy), call.r, strict)
          /\ \A o \in CircleInputs :
                (/\ o.r = call.r /\ o.lo = call.lo
                 /\ WLeq(Dist2(call.x, call.y, call.cx, call.cy),
                         Dist2(o.x, o.y, o.cx, o.cy)))
                  => CovGeq(ret[1], aa_circle(o.x, o.y, o.cx, o.cy, o.r, o.lo))
    /\ (call.fn = "aa_rounded_rect" /\ ret # NoRet) =>
          LET q == Quadrants(call.x, call.y, call.size, call.corner_r)
          IN  /\ q = {} => CovIs1(ret[1])
              /\ \A i \in q :
                    /\ CovLaw(ret[1], CornerDist2(call.x, call.y, call.size, call.corner_r, i),
                              call.corner_r, FALSE)
                    /\ \A o \in RectInputs :
                          (/\ o.size = call.size /\ o.lo = call.lo
                           /\ i \in Quadrants(o.x, o.y, o.size, o.corner_r)
                           /\ WLeq(CornerDist2(call.x, call.y, call.size, call.corner_r, i),
                                   CornerDist2(o.x, o.y, o.size, o.corner_r, i)))
                            => CovGeq(ret[1],
                                      aa_rounded_rect(o.x, o.y, o.size, o.corner_r, o.lo))

\* C5: both primitives return a value in [0,1], exactly 1.0 at a distance
\* <= r - 0.7, exactly 0.0 at a distance >= r + 0.7, and never more at a
\* larger distance; aa_rounded_rect returns 1.0 outside the corner quadrants.
C5_Coverage == CovClaim(FALSE)

\* C5 but for aa_circle at the distance r - 0.7 itself: with "exactly 1.0 at a
\* distance < r - 0.7" for aa_circle, the rest as stated.
C5_CoverageInside == CovClaim(TRUE)

------------------------------------------------------------------------------
(* The glyph test as a pure function, on the grid of the points              *)
(* (i/GlyphGrid, j/GlyphGrid) of the unit square.                            *)

GlyphGrid == 50

GlyphInputs ==
    {[fn |-> "is_in_b", nx |-> Frac(i, GlyphGrid), ny |-> Frac(j, GlyphGrid)] :
        i \in 0..GlyphGrid, j \in 0..GlyphGrid}

InitGlyph ==
    /\ call \in GlyphInputs
    /\ ret = NoRet
    /\ DrawIdle /\ MainIdle

ApplyIsInB ==
    /\ call.fn = "is_in_b" /\ ret = NoRet
    /\ ret' = <<is_in_b(call.nx, call.ny)>>
    /\ UNCHANGED <<call, drawVars, mainVars>>

NextGlyph == ApplyIsInB

SpecGlyph == InitGlyph /\ [][NextGlyph]_vars

\* The regions of the glyph table, for the point p = (p.nx, p.ny); their
\* bounds are in thousandths.
TableRect(p, x0, x1, y0, y1) ==
    /\ x0 * p.nx.d <= 1000 * p.nx.n /\ 1000 * p.nx.n <= x1 * p.nx.d
    /\ y0 * p.ny.d <= 1000 * p.ny.n /\ 1000 * p.ny.n <= y1 * p.ny.d

\* ((nx - cx)/rx)^2 + ((ny - cy)/ry)^2 <= 1, cleared of its denominators
TableEllipse(p, cx, cy, rx, ry) ==
    LET dx == (1000 * p.nx.n - cx * p.nx.d) * (ry * p.ny.d)
        dy == (1000 * p.ny.n - cy * p.ny.d) * (rx * p.nx.d)
        rr == (rx * p.nx.d) * (ry * p.ny.d)
    IN  WLeq(WAdd(WSq(dx), WSq(dy)), WSq(rr))

TableUnion(p) ==
    \/ TableRect(p, 320, 440, 200, 800)
    \/ TableRect(p, 440, 580, 200, 300)
    \/ TableRect(p, 440, 600, 460, 540)
    \/ TableRect(p, 440, 580, 700, 800)
    \/ TableEllipse(p, 550, 375, 140, 135) /\ 440 * p.nx.d <= 1000 * p.nx.n
    \/ TableEllipse(p, 570, 625, 150, 135) /\ 440 * p.nx.d <= 1000 * p.nx.n

TableHole(p) ==
    \/ TableEllipse(p, 490, 375, 65, 65)
    \/ TableEllipse(p, 510, 625, 70, 65)

\* C6: is_in_b(nx, ny) is true exactly for the points of the union of the
\* stem, the three bars and the two bowls (bowls only where nx >= 0.44) that
\* lie in neither hole ellipse; a point in a hole yields false even inside a
\* bar, a bowl or the stem.
C6_Glyph ==
    (call.fn = "is_in_b" /\ ret # NoRet) =>
        /\ ret[1] <=> (TableUnion(call) /\ ~TableHole(call))
        /\ TableHole(call) => ret[1] = FALSE

\* the point (0.44, 0.38): in the stem and in the upper bowl, and in hole 1
C6_Witness ==
    /\ call.fn = "is_in_b" /\ ret = <<FALSE>>
    /\ call.nx = Frac(22, 50) /\ call.ny = Frac(19, 50)
    /\ TableRect(call, 320, 440, 200, 800)
    /\ TableEllipse(call, 490, 375, 65, 65)

------------------------------------------------------------------------------
(* The encoder as a pure function: images of 1..MaxDim by 1..MaxDim pixels   *)
(* whose pixels run through a table of colours, from any entry and with any  *)
(* stride.                                                                   *)

MaxDim == 2

\* transparent, the brand colour, white, and two colours whose four channels
\* all differ
Colours ==
    << <<0, 0, 0, 0>>, <<16, 185, 129, 255>>, <<255, 255, 255, 255>>,
       <<1, 2, 3, 4>>, <<200, 100, 50, 25>> >>

Image(n, first, stride) ==
    [k \in 1..n |-> Colours[((first + (k - 1) * stride) % Len(Colours)) + 1]]

PngInputs ==
    {[fn |-> "make_png", width |-> w, height |-> h, pixels |-> Image(w * h, f, d)] :
        w \in 1..MaxDim, h \in 1..MaxDim,
        f \in 0..(Len(Colours) - 1), d \in 0..(Len(Colours) - 1)}

InitPng ==
    /\ call \in PngInputs
    /\ ret = NoRet
    /\ DrawIdle /\ MainIdle

ApplyMakePng ==
    /\ call.fn = "make_png" /\ ret = NoRet
    /\ ret' = <<make_png(call.width, call.height, call.pixels)>>
    /\ UNCHANGED <<call, drawVars, mainVars>>

NextPng == ApplyMakePng

SpecPng == InitPng /\ [][NextPng]_vars

\* Reading a stream back.  The big-endian number in the 4 bytes from pos on:
BE32(out, pos) ==
    ((out[pos] * 256 + out[pos + 1]) * 256 + out[pos + 2]) * 256 + out[pos + 3]

\* bytes first..last of out, <<>> where the stream is too short
Cut(out, first, last) ==
    IF first >= 1 /\ last <= Len(out) /\ first <= last + 1
    THEN SubSeq(out, first, last) ELSE <<>>

\* the chunk that starts at pos: length, type, data, CRC, and where the next
\* chunk starts
ChunkAt(out, pos) ==
    LET len == IF pos + 3 <= Len(out) THEN BE32(out, pos) ELSE 0
    IN  [whole |-> pos + 11 + len <= Len(out),
         len |-> len,
         type |-> Cut(out, pos + 4, pos + 7),
         data |-> Cut(out, pos + 8, pos + 7 + len),
         crc |-> Cut(out, pos + 8 + len, pos + 11 + len),
         next |-> pos + 12 + len]

\* the three chunks a stream must consist of after its signature
Chunks(out) ==
    LET c1 == ChunkAt(out, 9)
        c2 == ChunkAt(out, c1.next)
        c3 == ChunkAt(out, c2.next)
    IN  <<c1, c2, c3>>

CrcVerifies(c) == c.whole /\ c.crc = pack_I_halves(crc32(c.type \o c.data))

\* C1: make_png returns the PNG signature and then exactly the chunks IHDR,
\* IDAT, IEND and nothing else, each framed as length, type, data and the
\* CRC-32 of type + data; IHDR holds width, height, 8, 6, 0, 0, 0 and IEND is
\* empty.
C1_Framing ==
    (call.fn = "make_png" /\ ret # NoRet) =>
        LET out == ret[1]
            cs == Chunks(out)
        IN  /\ Cut(out, 1, 8) = <<137, 80, 78, 71, 13, 10, 26, 10>>
            /\ \A i \in 1..3 : CrcVerifies(cs[i])
            /\ cs[3].next = Len(out) + 1
            /\ cs[1].type = <<73, 72, 68, 82>>
            /\ cs[2].type = <<73, 68, 65, 84>>
            /\ cs[3].type = <<73, 69, 78, 68>>
            /\ cs[1].len = 13
            /\ BE32(cs[1].data, 1) = call.width
            /\ BE32(cs[1].data, 5) = call.height
            /\ Cut(cs[1].data, 9, 13) = <<8, 6, 0, 0, 0>>
            /\ cs[3].len = 0 /\ cs[3].data = <<>>

\* a 2 x 2 image of four different colours has been encoded: 8 + 25 + 41 + 12
\* bytes
C1_Witness ==
    /\ call.fn = "make_png" /\ ret # NoRet
    /\ call.width = 2 /\ call.height = 2
    /\ call.pixels = Image(4, 1, 1)
    /\ Len(ret[1]) = 86
    /\ Chunks(ret[1])[2].len = 29

\* The inverse of the compressor: the bytes of the one stored block of the
\* stream z, <<>> if z is not such a stream or its Adler-32 is wrong.
Inflate(z) ==
    LET n == Len(z) - 11
        data == Cut(z, 8, 7 + n)
        ad == Adler(data)
    IN  IF /\ n >= 0
           /\ Cut(z, 1, 3) = <<120, 1, 1>>
           /\ z[4] + 256 * z[5] = n
           /\ z[6] + 256 * z[7] = 65535 - n
           /\ Cut(z, 8 + n, 11 + n)
                 = <<ad[2] \div 256, ad[2] % 256, ad[1] \div 256, ad[1] % 256>>
        THEN data ELSE <<>>

\* Decoding as C2 says: width and height from IHDR, the inflated IDAT split
\* into height rows of 1 + 4*width bytes, each row's filter byte dropped, the
\* rest grouped into pixels.
Decode(out) ==
    LET cs == Chunks(out)
        w == BE32(cs[1].data, 1)
        h == BE32(cs[1].data, 5)
        raw == Inflate(cs[2].data)
        At(k) == ((k - 1) \div w) * (1 + 4 * w) + 1 + 4 * ((k - 1) % w)
    IN  [width |-> w, height |-> h,
         sized |-> Len(raw) = h * (1 + 4 * w),
         filters |-> {raw[y * (1 + 4 * w) + 1] : y \in 0..(h - 1)},
         pixels |-> [k \in 1..(w * h) |->
                       <<raw[At(k) + 1], raw[At(k) + 2], raw[At(k) + 3], raw[At(k) + 4]>>]]

\* C2: decoding what make_png returns gives back the width, the height and
\* the pixels in row-major order, and every row's filter byte is 0.
C2_RoundTrip ==
    (call.fn = "make_png" /\ ret # NoRet) =>
        LET d == Decode(ret[1])
        IN  /\ d.sized
            /\ d.width = call.width /\ d.height = call.height
            /\ d.filters = {0}
            /\ d.pixels = call.pixels

\* a 1 x 2 image (two rows of one pixel) of two different colours has been
\* encoded and decodes to itself
C2_Witness ==
    /\ call.fn = "make_png" /\ ret # NoRet
    /\ call.width = 1 /\ call.height = 2
    /\ call.pixels = << <<1, 2, 3, 4>>, <<200, 100, 50, 25>> >>
    /\ Inflate(Chunks(ret[1])[2].data) = <<0, 1, 2, 3, 4, 0, 200, 100, 50, 25>>
    /\ Decode(ret[1]).pixels = call.pixels

------------------------------------------------------------------------------
(* The driver.  main produces five outputs one after the other; a file's     *)
(* content is named, not spelled out: "png 512" is make_png(512, 512,        *)
(* draw_icon(512)), "ico 32" the icon header, its entry and the 32 x 32 PNG, *)
(* "svg" the SVG text.  Before the run a file is "absent" or "old"; open     *)
(* for writing leaves it "empty", and a write that fails leaves it "empty"   *)
(* or "partial".  Every library call main makes may raise (the directory is  *)
(* not creatable or writable, the disk is full, memory runs out); main       *)
(* catches nothing, so the exception ends the run.                           *)

\* the keys of the dict sizes in the order of their insertion, then the
\* favicon and the SVG reference
OutputNames ==
    <<"pwa-512x512.png", "pwa-192x192.png", "apple-touch-icon.png",
      "favicon.ico", "icon.svg">>

\* what main generates for its k-th output
Generated(k) ==
    IF k = 1 THEN "png 512"
    ELSE IF k = 2 THEN "png 192"
    ELSE IF k = 3 THEN "png 180"
    ELSE IF k = 4 THEN "ico 32"
    ELSE "svg"

NameSet == {OutputNames[k] : k \in 1..Len(OutputNames)}

Init ==
    /\ CallIdle /\ DrawIdle
    /\ main_pc = "makedirs"
    /\ main_k = 0
    /\ main_data = ""
    /\ main_fs \in [NameSet -> {"absent", "old"}]
    /\ main_log = <<>>

\* os.makedirs(out_dir, exist_ok=True)
MakeDirs ==
    /\ main_pc = "makedirs"
    /\ main_pc' = "generate"
    /\ main_k' = 1
    /\ UNCHANGED <<call, ret, drawVars, main_data, main_fs, main_log>>

\* pixels = draw_icon(size); png_data = make_png(size, size, pixels), and for
\* the favicon the header and the entry; for the last output the SVG text
Generate ==
    /\ main_pc = "generate"
    /\ main_data' = Generated(main_k)
    /\ main_pc' = "open"
    /\ UNCHANGED <<call, ret, drawVars, main_k, main_fs, main_log>>

\* with open(path, 'wb') as f
Open ==
    /\ main_pc = "open"
    /\ main_fs' = [main_fs EXCEPT ![OutputNames[main_k]] = "empty"]
    /\ main_pc' = "write"
    /\ UNCHANGED <<call, ret, drawVars, main_k, main_data, main_log>>

\* f.write(png_data) and the end of the with block; then the next output, or
\* the end of main
Write ==
    /\ main_pc = "write"
    /\ main_fs' = [main_fs EXCEPT ![OutputNames[main_k]] = main_data]
    /\ main_log' = Append(main_log, OutputNames[main_k])
    /\ main_data' = ""
    /\ IF main_k = Len(OutputNames)
       THEN main_pc' = "done" /\ main_k' = main_k
       ELSE main_pc' = "generate" /\ main_k' = main_k + 1
    /\ UNCHANGED <<call, ret, drawVars>>

\* an exception that is caught: the output is given up and the run goes on
\* with the next one
Raise_and_go_on ==
    /\ main_pc \in {"generate", "open", "write"}
    /\ main_fs' = IF main_pc = "write"
                  THEN [main_fs EXCEPT ![OutputNames[main_k]] = "partial"]
                  ELSE main_fs
    /\ main_data' = ""
    /\ IF main_k = Len(OutputNames)
       THEN main_pc' = "done" /\ main_k' = main_k
       ELSE main_pc' = "generate" /\ main_k' = main_k + 1
    /\ UNCHANGED <<call, ret, drawVars, main_log>>

\* an exception raised by the step main is at: it propagates out of main and
\* ends the run; raised by f.write, it leaves the file without all its bytes
Raise ==
    /\ main_pc \in {"makedirs", "generate", "open", "write"}
    /\ main_pc' = "failed"
    /\ IF main_pc = "write"
       THEN \E left \in {"empty", "partial"} :
               main_fs' = [main_fs EXCEPT ![OutputNames[main_k]] = left]
       ELSE main_fs' = main_fs
    /\ UNCHANGED <<call, ret, drawVars, main_k, main_data, main_log>>

Next == MakeDirs \/ Generate \/ Open \/ Write \/ Raise

Spec == Init /\ [][Next]_vars

\* the files the run has not got to: those after the one being produced
Later == {OutputNames[k] : k \in (Len(main_log) + 2)..Len(OutputNames)}

\* C10: the outputs are written in the order pwa-512x512.png,
\* pwa-192x192.png, apple-touch-icon.png, favicon.ico, icon.svg, each fully
\* generated before it is opened or written; after a failure nothing more
\* happens, no later output has been touched and the outputs written before
\* stay as written; a run that ends without failure has written all five,
\* each once.
C10_Main ==
    /\ main_log = SubSeq(OutputNames, 1, Len(main_log))
    /\ \A k \in 1..Len(main_log) : main_fs[OutputNames[k]] = Generated(k)
    /\ main_pc \in {"open", "write"} =>
          main_k = Len(main_log) + 1 /\ main_data = Generated(main_k)
    /\ \A n \in Later : main_fs[n] \in {"absent", "old"}
    /\ main_pc = "failed" => ~ENABLED Next /\ Len(main_log) < Len(OutputNames)
    /\ main_pc = "done" => ~ENABLED Next /\ main_log = OutputNames

\* the write of apple-touch-icon.png failed after two outputs were written:
\* the two are in place, the third is incomplete, the last two untouched
C10_Witness ==
    /\ main_pc = "failed"
    /\ main_log = <<"pwa-512x512.png", "pwa-192x192.png">>
    /\ main_fs["pwa-512x512.png"] = "png 512"
    /\ main_fs["pwa-192x192.png"] = "png 192"
    /\ main_fs["apple-touch-icon.png"] = "partial"
    /\ main_fs["favicon.ico"] = "old"
    /\ main_fs["icon.svg"] = "absent"

==============================================================================
